---- MODULE Spec2Model ----
(***************************************************************************)
(* A model of itchio_charity_bundles_feed.py: the crawl of the configured  *)
(* sources (blog index, game-jams board, jam listings), the jam pagination *)
(* walker and detail verifier, the freshness gate, the seen-set and the    *)
(* bounded feed.  Texts and URLs are strings; regular expressions are      *)
(* modelled by what they match, character by character.                    *)
(***************************************************************************)
EXTENDS Integers, Sequences, FiniteSets, TLC

(***************************************************************************)
(* Text helpers: the parts of Python's re semantics the patterns use.      *)
(***************************************************************************)
UPPER == "ABCDEFGHIJKLMNOPQRSTUVWXYZ"
LOWER == "abcdefghijklmnopqrstuvwxyz"
DIGITS == "0123456789"

CharAt(s, i) == IF i >= 1 /\ i <= Len(s) THEN SubSeq(s, i, i) ELSE ""

Chars(s) == {SubSeq(s, i, i) : i \in 1..Len(s)}

UpperChars == Chars(UPPER)
DigitChars == Chars(DIGITS)
WordChars == Chars(UPPER) \cup Chars(LOWER) \cup Chars(DIGITS) \cup {"_"}

LowerOf == [c \in UpperChars |->
              SubSeq(LOWER, CHOOSE j \in 1..Len(UPPER) : SubSeq(UPPER, j, j) = c,
                            CHOOSE j \in 1..Len(UPPER) : SubSeq(UPPER, j, j) = c)]

\* re.I: a pattern letter matches either case, so the text is compared lowered.
LowerChar(c) == IF c \in UpperChars THEN LowerOf[c] ELSE c

RECURSIVE LowerStr(_)
LowerStr(s) == IF Len(s) = 0 THEN "" ELSE LowerChar(Head(s)) \o LowerStr(Tail(s))

\* \w of the regular expressions.
IsWordChar(c) == c \in WordChars

\* \s of the regular expressions.
IsSpace(c) == c \in {" ", "\t", "\n"}

\* \b at the position between character i and character i + 1 (i in 0..Len(s)).
WordBoundary(s, i) == IsWordChar(CharAt(s, i)) # IsWordChar(CharAt(s, i + 1))

\* s[i:].startswith(lit), i counted from 0.
StartsWithAt(s, i, lit) ==
    /\ i + Len(lit) <= Len(s)
    /\ SubSeq(s, i + 1, i + Len(lit)) = lit

StartsWith(s, lit) == StartsWithAt(s, 0, lit)

\* lit in s
Contains(s, lit) == \E i \in 0..Len(s) : StartsWithAt(s, i, lit)

\* The end positions of a literal alternative tried at position i.
LitEnds(s, i, lit) == IF StartsWithAt(s, i, lit) THEN {i + Len(lit)} ELSE {}

\* re.search(r"\b(lit1|lit2|...)\b", text, re.I)
WordSearch(text, lits) ==
    LET s == LowerStr(text)
    IN  \E i \in 0..Len(s) :
            /\ WordBoundary(s, i)
            /\ \E lit \in lits : \E e \in LitEnds(s, i, lit) : WordBoundary(s, e)

(***************************************************************************)
(* CHARITY, the keyword filter.                                            *)
(***************************************************************************)
\* fund(?:\s*raiser)? tried at position i: "fund", or "fund", any run of
\* white space, "raiser".
FundEnds(s, i) ==
    IF ~StartsWithAt(s, i, "fund") THEN {}
    ELSE {i + 4} \cup
         {e \in (i + 4)..Len(s) :
            \E k \in 0..(Len(s) - i - 4) :
               /\ \A j \in 1..k : IsSpace(CharAt(s, i + 4 + j))
               /\ StartsWithAt(s, i + 4 + k, "raiser")
               /\ e = i + 4 + k + 6}

\* non[- ]?profit tried at position i.
NonProfitEnds(s, i) ==
    LitEnds(s, i, "nonprofit") \cup LitEnds(s, i, "non-profit") \cup LitEnds(s, i, "non profit")

CharityAltEnds(s, i) ==
    LitEnds(s, i, "charity") \cup LitEnds(s, i, "fundraiser") \cup
    LitEnds(s, i, "donation") \cup LitEnds(s, i, "relief") \cup
    LitEnds(s, i, "mutual aid") \cup NonProfitEnds(s, i) \cup
    LitEnds(s, i, "benefit") \cup FundEnds(s, i)

\* A plausible slip: the pattern without its \b anchors.
CharityNoBoundary(text) ==
    LET s == LowerStr(text)
    IN  \E i \in 0..Len(s) : CharityAltEnds(s, i) # {}

\* bool(CHARITY.search(text))
CharityMatch(text) ==
    LET s == LowerStr(text)
    IN  \E i \in 0..Len(s) :
            /\ WordBoundary(s, i)
            /\ \E e \in CharityAltEnds(s, i) : WordBoundary(s, e)

(***************************************************************************)
(* Settings.  The crawl caps and the feed length are scaled down so that   *)
(* every cap is reached within the bounds of the model; MAX_AGE_DAYS and   *)
(* the text limits keep the program's values.                              *)
(***************************************************************************)
MAX_AGE_DAYS == 30
MAX_JAMS_PAGES == 3
MAX_JAMS_PER_PAGE == 2
MAX_JAMS_TOTAL == 3
\* found[-50:]
KEEP_LATEST == 2
\* [:160], [:280], [:500]
TITLE_MAX == 160
SUMMARY_MAX == 280
SNIPPET_MAX == 500

\* Bounds of the model.
MaxRuns == 2
\* anchors read on one listing page
MaxCards == 3
\* anchors read on one blog index or thread page
MaxAnchors == 2
\* the clock reading (in days) of the first run
Now0 == 100
\* fetches of one run over the small site that may fail
MaxFails == 3
\* pieces a text given to the matcher is put together from
MaxPieces == 3
\* the interpreter's recursion limit, counted in calls of items_from_html
MaxDepth == 3

Min(a, b) == IF a <= b THEN a ELSE b
Max(a, b) == IF a >= b THEN a ELSE b

\* s[:n]
Trunc(s, n) == IF Len(s) <= n THEN s ELSE SubSeq(s, 1, n)

\* s[-n:] of a list
LastN(s, n) == IF Len(s) <= n THEN s ELSE SubSeq(s, Len(s) - n + 1, Len(s))

\* url.rstrip("/")
RECURSIVE RStripSlash(_)
RStripSlash(s) ==
    IF Len(s) > 0 /\ CharAt(s, Len(s)) = "/" THEN RStripSlash(SubSeq(s, 1, Len(s) - 1)) ELSE s

(***************************************************************************)
(* Sources.  The model keeps the blog index, the board and the first pair  *)
(* of jam listings (default and sort-by-date view of the same month).      *)
(***************************************************************************)
SOURCES ==
    << [url |-> "https://itch.io/blog", label |-> "[BLOG]"],
       [url |-> "https://itch.io/board/533649/game-jams", label |-> "[BOARD]"],
       [url |-> "https://itch.io/jams/starting-this-month", label |-> "[JAMS]"],
       [url |-> "https://itch.io/jams/starting-this-month/sort-date", label |-> "[JAMS]"] >>

\* to_abs; the urljoin branch is taken by plain relative paths only.
\* path.split('/')
RECURSIVE Segments(_, _)
Segments(s, cur) ==
    IF Len(s) = 0 THEN <<cur>>
    ELSE IF CharAt(s, 1) = "/" THEN <<cur>> \o Segments(SubSeq(s, 2, Len(s)), "")
    ELSE Segments(SubSeq(s, 2, Len(s)), cur \o CharAt(s, 1))

NonEmpty(seg) == Len(seg) > 0

\* urljoin's loop over the segments: ".." drops the segment before it, "."
\* is skipped.
RECURSIVE Resolve(_, _)
Resolve(segs, acc) ==
    IF Len(segs) = 0 THEN acc
    ELSE IF Head(segs) = ".."
         THEN Resolve(Tail(segs), IF Len(acc) > 0 THEN SubSeq(acc, 1, Len(acc) - 1) ELSE acc)
    ELSE IF Head(segs) = "." THEN Resolve(Tail(segs), acc)
    ELSE Resolve(Tail(segs), Append(acc, Head(segs)))

RECURSIVE JoinSlash(_)
JoinSlash(segs) ==
    IF Len(segs) = 0 THEN ""
    ELSE IF Len(segs) = 1 THEN Head(segs)
    ELSE Head(segs) \o "/" \o JoinSlash(Tail(segs))

\* urljoin("https://itch.io/", href) for a relative path without scheme,
\* query or fragment: empty inner segments are dropped, dot segments are
\* resolved, and a path that ends in a dot segment ends in a slash.
urljoin(href) ==
    LET segs == Segments(href, "")
        n == Len(segs)
        kept == Append(SelectSeq(SubSeq(segs, 1, n - 1), NonEmpty), segs[n])
        res == Resolve(kept, <<>>)
    IN  "https://itch.io/" \o JoinSlash(IF segs[n] \in {".", ".."} THEN Append(res, "") ELSE res)

to_abs(href) ==
    IF Len(href) = 0 THEN ""
    ELSE IF StartsWith(href, "http://") \/ StartsWith(href, "https://") THEN href
    ELSE IF StartsWith(href, "/") THEN "https://itch.io" \o href
    ELSE urljoin(href)

\* set_page, for a url without a query string
set_page(url, page_num) == url \o "?page=" \o CharAt(DIGITS, page_num + 1)

\* page_url of the pagination loop
PageUrl(base_url, pg) ==
    IF pg = 1 /\ ~Contains(base_url, "page=") THEN base_url ELSE set_page(base_url, pg)

\* An optional value: <<>> is None, <<v>> is v.
None == <<>>
Some(v) == <<v>>

\* parse_iso / parse_iso_any: a datetime attribute is either an ISO string,
\* modelled by the day it denotes, or text fromisoformat rejects.
parse_iso(raw) == IF raw.iso THEN Some(raw.day) ELSE None

\* find_page_timestamp: the first time[datetime] that parses, else the first
\* meta tag whose content parses; raws lists them in that order.
RECURSIVE find_page_timestamp(_)
find_page_timestamp(raws) ==
    IF Len(raws) = 0 THEN None
    ELSE IF parse_iso(Head(raws)) # None THEN parse_iso(Head(raws))
    ELSE find_page_timestamp(Tail(raws))

\* A plausible slip: a missing timestamp counted as fresh.
within_age_none_ok(ts, nowv) == ts = None \/ ts[1] >= nowv - MAX_AGE_DAYS

\* within_age(ts, days = MAX_AGE_DAYS), at clock reading nowv
within_age(ts, nowv) == ts # None /\ ts[1] >= nowv - MAX_AGE_DAYS

\* hash_item: sha1 of title + link, modelled by the digested string.
hash_item(it) == it.title \o it.link

(***************************************************************************)
(***************************************************************************)
(* What the site may serve.  A listing, blog or thread page is read anchor *)
(* by anchor.                                                              *)
(***************************************************************************)
Failed == [ok |-> FALSE]
Fetched == [ok |-> TRUE]
EndOfPage == [kind |-> "end"]

Raw(day) == [iso |-> TRUE, day |-> day]
BadRaw == [iso |-> FALSE, day |-> 0]
NoTime == <<FALSE, BadRaw>>

\* An anchor a[href*='/jam/'] of a listing page: href, text of the
\* container three parents up, and the container's first time element.
Card(h, t, tm) == [kind |-> "card", href |-> h, text |-> t, hastime |-> tm[1], time |-> tm[2]]

Cards(hrefs, texts, times) == {Card(h, t, tm) : h \in hrefs, t \in texts, tm \in times}

CardTexts ==
    {"Starts in 2 days", "Ended 3 days ago", "ended early, Starts in 2 days",
     "Charity jam Submission closes in 1 day", "Weekend jam"}

\* The first jam carries every kind of time element, the others none.
CardMenuFull ==
    Cards({"/jam/a"}, CardTexts, {NoTime, <<TRUE, BadRaw>>, <<TRUE, Raw(Now0)>>, <<TRUE, Raw(Now0 + 1)>>})
    \cup Cards({"https://itch.io/jam/a", "/jam/b", "/jam/c", "/jam/d", "https://example.com/jam/z"},
               CardTexts, {NoTime})

\* A jam page: its heading and the text of its content regions.
JamPage(t, x) == [ok |-> TRUE, title |-> t, text |-> x]

JamPagesFull ==
    {JamPage("Relief Jam", "A game jam for charity"), JamPage("Relief Jam", "Just a jam"),
     JamPage("", "A game jam for charity")}

\* The first jam's page may lack a heading, the others have one.
JamPagesOf(url) ==
    IF url = "https://itch.io/jam/a" THEN JamPagesFull
    ELSE {pg \in JamPagesFull : Len(pg.title) > 0}

\* The datetime values a blog post or thread page carries, in the order
\* find_page_timestamp reads them.
TimeMenusFull ==
    {<<>>, <<BadRaw>>, <<BadRaw, Raw(Now0 - 1)>>, <<Raw(Now0 - MAX_AGE_DAYS - 15)>>,
     <<Raw(Now0 - MAX_AGE_DAYS)>>, <<Raw(Now0 - MAX_AGE_DAYS - 15), Raw(Now0 - 1)>>}

Page(raws) == [ok |-> TRUE, raws |-> raws]
PageMenuFull == {Page(r) : r \in TimeMenusFull}

\* An anchor: its href, its text and the text of its parent element, which
\* contains the anchor's own text.
Anchor(h, t, sfx) ==
    [kind |-> "a", href |-> h, text |-> t,
     parent |-> IF Len(sfx) = 0 THEN t ELSE IF Len(t) = 0 THEN sfx ELSE t \o " " \o sfx]

Anchors(hrefs, texts, sfxs) == {Anchor(h, t, x) : h \in hrefs, t \in texts, x \in sfxs}

\* The anchors of a blog index that has a[href*='/blog/'] anchors ...
BlogAnchorsFull ==
    Anchors({"/blog/101/charity-bundle", "https://example.com/blog/x"},
            {"Charity Bundle", "Read more", ""}, {""})
    \cup {Anchor("/blog/101/charity-bundle", "Read more", "donation drive")}
\* ... and of one that has none, where every anchor is read.
OtherAnchorsFull ==
    Anchors({"/jam/relief-jam", ""}, {"Charity Bundle", ""}, {""})
    \cup {Anchor("/jam/relief-jam", "Read more", "donation drive")}

ThreadAnchorsFull ==
    Anchors({"/jam/relief-jam", "https://example.com/donate", ""}, {"Charity Jam", "hello"}, {""})
    \cup {Anchor("/jam/relief-jam", "hello", "fundraiser")}

BlogIndex(b) == [ok |-> TRUE, blogLinks |-> b]
BoardPage(hrefs) == [ok |-> TRUE, hrefs |-> hrefs]

\* The a[href*='/board/'] anchors of a board page, in document order.
Boards(hrefs) == {<<>>} \cup {<<h>> : h \in hrefs} \cup {<<h, g>> : h \in hrefs, g \in hrefs}

BoardPagesFull ==
    Boards({"/board/533649/game-jams/a-charity-jam", "https://itch.io/board/533649/game-jams/b",
            "/board/533649/game-jams"})

\* Board pages with a relative link whose path has dot segments.
BoardPagesDeep ==
    Boards({"/board/533649/game-jams/a-charity-jam", "t/../board/533649/game-jams/."})

(***************************************************************************)
(* One small site, served where a whole run over all sources is followed:  *)
(* key <<url, 0>> is the page behind url, <<url, i>> its i-th anchor.      *)
(* The blog index links one post twice; the board has one thread; the      *)
(* month's listing shows three jams and its date-sorted view one of them.  *)
(***************************************************************************)
SmallPost == Anchor("/blog/101/charity-bundle", "Charity Bundle", "")
SmallReply == Anchor("/jam/relief-jam", "Charity Jam", "")
SmallThread == "/board/533649/game-jams/a-charity-jam"

SmallCardA == Card("/jam/a", "Starts in 2 days", <<TRUE, Raw(Now0 + 1)>>)
SmallCardB == Card("/jam/b", "Starts in 2 days", NoTime)
SmallCardC == Card("/jam/c", "Starts in 2 days", NoTime)
SmallJam == JamPage("Relief Jam", "A game jam for charity")

SmallSite ==
    (<<"https://itch.io/blog", 0>> :> BlogIndex(TRUE)) @@
    (<<"https://itch.io/blog", 1>> :> SmallPost) @@
    (<<"https://itch.io/blog", 2>> :> SmallPost) @@
    (<<"https://itch.io/blog/101/charity-bundle", 0>> :> Page(<<Raw(Now0 - MAX_AGE_DAYS)>>)) @@
    (<<"https://itch.io/board/533649/game-jams", 0>> :> BoardPage(<<SmallThread>>)) @@
    (<<"https://itch.io" \o SmallThread, 0>> :> Page(<<Raw(Now0 - 1)>>)) @@
    (<<"https://itch.io" \o SmallThread, 1>> :> SmallReply) @@
    (<<"https://itch.io/jams/starting-this-month", 1>> :> SmallCardA) @@
    (<<"https://itch.io/jams/starting-this-month", 2>> :> SmallCardB) @@
    (<<"https://itch.io/jams/starting-this-month", 3>> :> SmallCardC) @@
    (<<"https://itch.io/jams/starting-this-month/sort-date", 1>> :> SmallCardB) @@
    (<<"https://itch.io/jam/a", 0>> :> SmallJam) @@
    (<<"https://itch.io/jam/b", 0>> :> SmallJam) @@
    (<<"https://itch.io/jam/c", 0>> :> SmallJam)

AllCards == CardMenuFull \cup {SmallCardA, SmallCardB, SmallCardC}
AllAnchors ==
    BlogAnchorsFull \cup OtherAnchorsFull \cup ThreadAnchorsFull \cup {SmallPost, SmallReply}
AllJamPages == JamPagesFull
AllBoardPages == BoardPagesFull \cup BoardPagesDeep \cup {<<SmallThread>>}

(***************************************************************************)
(* The jam card filter of collect_jam_links_from_listing.  The regular     *)
(* expressions are evaluated once for every text the site may serve.       *)
(***************************************************************************)
\* re.search(r"\bEnded\b", text_blob, re.I)
Ended(text_blob) == WordSearch(text_blob, {"ended"})

starts_in(text_blob) == WordSearch(text_blob, {"starts in"})
closes_in(text_blob) == WordSearch(text_blob, {"submission closes in"})
ends_in(text_blob) == WordSearch(text_blob, {"ends in", "closes in"})

CardTextFacts ==
    [t \in {c.text : c \in AllCards} |->
        [ended |-> Ended(t),
         status |-> starts_in(t) \/ closes_in(t) \/ ends_in(t)]]

CardLinkFacts ==
    [h \in {c.href : c \in AllCards} |->
        [link |-> to_abs(h), jam |-> StartsWith(to_abs(h), "https://itch.io/jam/")]]

\* ts_val of a card: the container's first time element, if it has a datetime
CardTs(card) == IF card.hastime THEN parse_iso(card.time) ELSE None

\* A plausible slip: the card's time is not compared with the clock.
keep_status_only(card, nowv) == CardTextFacts[card.text].status

\* keep, lines 192-198
keep(card, nowv) ==
    LET status == CardTextFacts[card.text].status
        ts_val == CardTs(card)
    IN  IF ts_val # None THEN status /\ ts_val[1] > nowv ELSE status

\* A plausible slip: the Ended test left out.
CardKeptNoEnded(card, reg, nowv) ==
    /\ CardLinkFacts[card.href].jam
    /\ CardLinkFacts[card.href].link \notin reg
    /\ keep(card, nowv)

\* A plausible slip: the registry is not consulted.
CardKeptNoRegistry(card, reg, nowv) ==
    /\ CardLinkFacts[card.href].jam
    /\ ~CardTextFacts[card.text].ended
    /\ keep(card, nowv)

\* Whether the anchor of a card is kept: lines 164-201.
CardKept(card, reg, nowv) ==
    /\ CardLinkFacts[card.href].jam
    /\ CardLinkFacts[card.href].link \notin reg
    /\ ~CardTextFacts[card.text].ended
    /\ keep(card, nowv)

(***************************************************************************)
(* Dispatch of items_from_html by the shape of the url.                    *)
(***************************************************************************)
IsDigit(c) == c \in DigitChars

\* The length of the run of digits that starts after position i (\d+).
RECURSIVE DigitRun(_, _)
DigitRun(s, i) == IF i < Len(s) /\ IsDigit(CharAt(s, i + 1)) THEN 1 + DigitRun(s, i + 1) ELSE 0

NotSlash(c) == Len(c) = 1 /\ c # "/"

\* The length of the run of non-slash characters after position i ([^/]+).
RECURSIVE NotSlashRun(_, _)
NotSlashRun(s, i) == IF i < Len(s) /\ NotSlash(CharAt(s, i + 1)) THEN 1 + NotSlashRun(s, i + 1) ELSE 0

\* community/\d+/\d+ tried at position i
CommunityAt(s, i) ==
    /\ StartsWithAt(s, i, "community/")
    /\ LET d1 == DigitRun(s, i + 10)
       IN  /\ d1 >= 1
           /\ StartsWithAt(s, i + 10 + d1, "/")
           /\ DigitRun(s, i + 11 + d1) >= 1

\* board/\d+/[^/]+/.+ tried at position i
BoardThreadAt(s, i) ==
    /\ StartsWithAt(s, i, "board/")
    /\ LET d1 == DigitRun(s, i + 6)
       IN  /\ d1 >= 1
           /\ StartsWithAt(s, i + 6 + d1, "/")
           /\ LET n1 == NotSlashRun(s, i + 7 + d1)
              IN  /\ n1 >= 1
                  /\ StartsWithAt(s, i + 7 + d1 + n1, "/")
                  /\ Len(s) >= i + 7 + d1 + n1 + 2

\* THREAD_HREF.search(href) is not None
THREAD_HREF(href) ==
    LET s == LowerStr(href)
    IN  \E i \in 0..Len(s) :
            /\ StartsWithAt(s, i, "/")
            /\ (CommunityAt(s, i + 1) \/ BoardThreadAt(s, i + 1))

IsJamsListing(url) ==
    \/ StartsWith(url, "https://itch.io/jams/starting-this-month")
    \/ StartsWith(url, "https://itch.io/jams/starting-this-week")
    \/ StartsWith(url, "https://itch.io/jams/in-progress")

\* The branch of items_from_html taken for url.
Strategy(url) ==
    IF IsJamsListing(url) THEN "jams"
    ELSE IF RStripSlash(url) = "https://itch.io/blog" THEN "blog"
    ELSE IF Contains(url, "/board/") /\ ~THREAD_HREF(url) THEN "board"
    ELSE "generic"

\* sorted(set(...)) of strings: Python compares code points.
ORDER == " !#$%&()*+,-./0123456789:;<=>?@ABCDEFGHIJKLMNOPQRSTUVWXYZ[]^_abcdefghijklmnopqrstuvwxyz"
CharRank(c) == CHOOSE i \in 1..Len(ORDER) : SubSeq(ORDER, i, i) = c

RECURSIVE StrLess(_, _)
StrLess(a, b) ==
    IF Len(b) = 0 THEN FALSE
    ELSE IF Len(a) = 0 THEN TRUE
    ELSE IF Head(a) = Head(b) THEN StrLess(Tail(a), Tail(b))
    ELSE CharRank(Head(a)) < CharRank(Head(b))

RECURSIVE SortedSet(_)
SortedSet(S) ==
    IF S = {} THEN <<>>
    ELSE LET m == CHOOSE x \in S : \A y \in S \ {x} : StrLess(x, y)
         IN  <<m>> \o SortedSet(S \ {m})

\* thread_links of a board page with the given hrefs, sorted and de-duplicated
ThreadLinks(hrefs) ==
    SortedSet({to_abs(hrefs[i]) : i \in {j \in 1..Len(hrefs) : THREAD_HREF(hrefs[j])}})

(***************************************************************************)
(* What the scanners compute from the texts and urls of a page, evaluated  *)
(* once for everything the site may serve.                                 *)
(***************************************************************************)
\* A plausible slip: the jam page is fetched but its text is not tested.
jam_page_matches_any(page) == TRUE

\* jam_page_matches: match
jam_page_matches(page) == CharityMatch(page.text)

JamPageFacts == [pg \in AllJamPages |-> [match |-> jam_page_matches(pg)]]

\* if not href or not text or not href.startswith("https://itch.io"): continue
AnchorSkipped(href, text) ==
    Len(href) = 0 \/ Len(text) = 0 \/ ~StartsWith(href, "https://itch.io")

\* blob = f"{text} - {snippet}" (the dash stands for the em dash)
Blob(text, snippet) == text \o " - " \o snippet

\* href, snippet and the charity test of an anchor (lines 258-265 and
\* 302-309); post: the blog strategy fetches the page behind the anchor.
AnchorFacts ==
    [a \in AllAnchors |->
        LET href == to_abs(a.href)
            snippet == Trunc(a.parent, SNIPPET_MAX)
        IN  [href |-> href,
             snippet |-> snippet,
             match |-> ~AnchorSkipped(href, a.text) /\ CharityMatch(Blob(a.text, snippet)),
             post |-> StartsWith(href, "https://itch.io/blog/")]]

\* The branch items_from_html takes for a source, and its listing page urls.
SourceFacts ==
    [i \in 1..Len(SOURCES) |->
        [strategy |-> Strategy(SOURCES[i].url),
         page |-> [pg \in 1..MAX_JAMS_PAGES |-> PageUrl(SOURCES[i].url, pg)]]]

ThreadLinksOf == [b \in AllBoardPages |-> ThreadLinks(b)]

AllThreadLinks == UNION {{ThreadLinksOf[b][i] : i \in 1..Len(ThreadLinksOf[b])} : b \in AllBoardPages}

ThreadStrategy == [u \in AllThreadLinks |-> Strategy(u)]

(***************************************************************************)
(* State.                                                                  *)
(***************************************************************************)
VARIABLES
    focus,       \* what the site serves: "all", "replay" (the small site), "jams", "pages", "board"
    web,         \* under "replay": the urls that answered and the urls that failed so far
    fails,       \* fetches of the small site that failed in this run
    now,         \* dt.datetime.now, in days
    stateFile,   \* .seen.json
    run,         \* the number of the current run of main()
    pc,          \* where main() and the scanners stand
    si,          \* index into SOURCES of the main loop
    seen,        \* main: seen
    new_seen,    \* main: new_seen
    found,       \* main: found
    feed,        \* feed.xml as this run wrote it (None before)
    saved,       \* this run has written .seen.json
    registry,    \* JAMS_SEEN_LINKS
    p,           \* collect_jam_links_from_listing: p
    collected,   \* collect_jam_links_from_listing: collected
    seen_page,   \* collect_jam_links_from_listing: seen_page
    ci,          \* anchors of the current listing page already read
    ki,          \* items_from_jams_list: position in kept
    out,         \* the list a scanner is building (out / candidates)
    blogOnly,    \* blog index: soup.select("a[href*='/blog/']") is non-empty
    ai,          \* anchors of the current blog/thread page already read
    threads,     \* board: sorted(set(thread_links))
    ti,          \* board: position in threads
    stack,       \* board: the loops over thread links that wait for a nested board scan
    page_ts,     \* generic scan: page_ts
    processed,   \* history: sources whose fetch was attempted in this run
    cands,       \* history: fingerprints of the items the scanners returned in this run
    walkEnd,     \* history: why the last walk ended: "range", "cap" or "empty" (early stop)
    keptCount,   \* history: the number of jam links kept in this run
    detailSet,   \* history: the jam pages fetched in this run
    refetched,   \* history: a jam page was fetched that had been fetched before in this run
    lastCard,    \* history: the card read last, and the line at which the loop left it
    lastAnchor,  \* history: the last blog/thread anchor read and what became of it
    lastDetail,  \* history: what the last fetch of a jam page returned
    slept,       \* the walker's time.sleep(1) ran after the last listing page fetch
    failedUrls,  \* history: the urls whose fetch failed in this run (small site)
    retried,     \* history: the urls fetched in this run after a fetch of them had failed
    cutIds,      \* history: fingerprints of the items earlier runs cut from their feeds
    mparts,      \* matcher check: the pieces of the text
    mres         \* matcher check: the result of CHARITY.search

vars == <<focus, web, fails, now, stateFile, run, pc, si, seen, new_seen, found, feed, saved,
          registry, p, collected, seen_page, ci, ki, out, blogOnly, ai, threads, ti,
          stack, page_ts, processed, cands, walkEnd, keptCount, detailSet, refetched, lastCard,
          lastAnchor, lastDetail, slept, failedUrls, retried, cutIds, mparts, mres>>

mainv == <<seen, new_seen, found, feed, saved>>
walkv == <<p, collected, seen_page, ci>>
scanv == <<blogOnly, ai, threads, ti, stack, page_ts>>
jamh == <<walkEnd, keptCount, detailSet, refetched, lastCard, lastDetail, slept>>
matchv == <<mparts, mres>>
histv == <<failedUrls, retried, cutIds>>

(***************************************************************************)
(* The environment: what a fetch returns.  get() raises for any url at any *)
(* time; on the small site at most MaxFails fetches of a run fail, and     *)
(* under "replay" a url fails again if it failed before and answers again  *)
(* if it answered before.                                                  *)
(***************************************************************************)
Rich == focus \in {"jams", "pages", "board"}

Site(key, default) == IF key \in DOMAIN SmallSite THEN SmallSite[key] ELSE default

Resp(url, okMenu) ==
    IF focus = "replay" /\ url \in web.bad THEN {Failed}
    ELSE IF focus = "replay" /\ url \in web.ok THEN okMenu
    ELSE okMenu \cup (IF Rich \/ fails < MaxFails \/ okMenu = {} THEN {Failed} ELSE {})

\* web.new: the urls a later run fetched that the first run had not fetched
Memo(url, r) ==
    IF focus # "replay" \/ url \in web.ok \cup web.bad THEN web
    ELSE IF run > 1 THEN [web EXCEPT !.new = @ \cup {url}]
    ELSE IF r.ok THEN [web EXCEPT !.ok = @ \cup {url}]
    ELSE [web EXCEPT !.bad = @ \cup {url}]

Spent(url, r) ==
    IF Rich \/ r.ok \/ (focus = "replay" /\ url \in web.bad) THEN fails ELSE fails + 1

\* The record of the failed fetches of a run, kept for the small site.
Logged(url, r) ==
    /\ failedUrls' = IF Rich \/ r.ok THEN failedUrls ELSE failedUrls \cup {url}
    /\ retried' = IF url \in failedUrls THEN retried \cup {url} ELSE retried

\* What the top-level fetch of a source returns when it succeeds.
SourceOk(i) ==
    LET s == SourceFacts[i].strategy
    IN  CASE focus = "jams" -> IF s = "jams" THEN {Fetched} ELSE {}
          [] focus = "pages" ->
                IF s = "blog" THEN {BlogIndex(b) : b \in BOOLEAN}
                ELSE IF s = "board" THEN {BoardPage(h) : h \in BoardPagesFull}
                ELSE {}
          [] focus = "board" ->
                IF s = "board" THEN {BoardPage(h) : h \in BoardPagesDeep} ELSE {}
          [] OTHER ->
                {Site(<<SOURCES[i].url, 0>>,
                      IF s = "blog" THEN BlogIndex(FALSE)
                      ELSE IF s = "board" THEN BoardPage(<<>>) ELSE Fetched)}

CardsAt(key, idx) ==
    IF Rich THEN (IF idx < MaxCards THEN CardMenuFull ELSE {}) \cup {EndOfPage}
    ELSE {Site(key, EndOfPage)}

\* What the fetch of a thread link returns when the link is a board listing.
NestedBoardOk == {BoardPage(h) : h \in BoardPagesDeep}

JamPageOk(url) == IF Rich THEN JamPagesOf(url) ELSE {Site(<<url, 0>>, SmallJam)}

PageOk(url) == IF Rich THEN PageMenuFull ELSE {Site(<<url, 0>>, Page(<<>>))}

BlogAnchorsAt(key, idx, blogLinks) ==
    IF Rich
    THEN (IF idx < MaxAnchors THEN (IF blogLinks THEN BlogAnchorsFull ELSE OtherAnchorsFull) ELSE {})
         \cup {EndOfPage}
    ELSE {Site(key, EndOfPage)}

ThreadAnchorsAt(key, idx) ==
    IF Rich THEN (IF idx < MaxAnchors THEN ThreadAnchorsFull ELSE {}) \cup {EndOfPage}
    ELSE {Site(key, EndOfPage)}

(***************************************************************************)
(* Init: a fresh process in front of any state file.                       *)
(***************************************************************************)
PriorIds2 == {"[JAMS] Relief Jamhttps://itch.io/jam/a", "[BOARD] Charity Jamhttps://itch.io/jam/relief-jam"}
PriorIds == {{}, PriorIds2}

StateFiles ==
    {[kind |-> "absent", ids |-> {}], [kind |-> "corrupt", ids |-> {}]} \cup
    {[kind |-> "valid", ids |-> s] : s \in PriorIds}

InitRun ==
    /\ now = Now0
    /\ run = 1
    /\ pc = "start"
    /\ si = 1
    /\ seen = {} /\ new_seen = {} /\ found = <<>>
    /\ feed = None /\ saved = FALSE
    /\ registry = {}
    /\ p = 1 /\ collected = <<>> /\ seen_page = 0 /\ ci = 0
    /\ ki = 1 /\ out = <<>>
    /\ blogOnly = FALSE /\ ai = 0 /\ threads = <<>> /\ ti = 1 /\ stack = <<>> /\ page_ts = None
    /\ processed = <<>> /\ cands = {}
    /\ walkEnd = "" /\ keptCount = 0 /\ detailSet = {} /\ refetched = FALSE
    /\ lastCard = None /\ lastAnchor = None /\ lastDetail = None /\ slept = FALSE
    /\ failedUrls = {} /\ retried = {} /\ cutIds = {}
    /\ web = [ok |-> {}, bad |-> {}, new |-> {}] /\ fails = 0
    /\ mparts = <<>> /\ mres = None

Init ==
    /\ focus = "all"
    /\ stateFile \in StateFiles
    /\ InitRun

(***************************************************************************)
(* main()                                                                  *)
(***************************************************************************)
\* A plausible slip: the state file is not read back.
load_seen_empty(file) == {}

\* load_seen
load_seen(file) == IF file.kind = "valid" THEN file.ids ELSE {}

LoadSeen ==
    /\ pc = "start"
    /\ seen' = load_seen(stateFile)
    /\ new_seen' = load_seen(stateFile)
    /\ found' = <<>>
    /\ si' = 1
    /\ pc' = "source"
    /\ UNCHANGED <<focus, web, fails, now, stateFile, run, feed, saved, registry, walkv, ki, out,
                   scanv, processed, cands, jamh, lastAnchor, matchv,
                   histv>>

\* A plausible slip: the loop is left after the first source.
AfterSourceStop == "finish"

\* The main loop moves on to the next source, or leaves the loop.
AfterSource == IF si = Len(SOURCES) THEN "finish" ELSE "source"

\* html = get(url), and the dispatch of items_from_html up to its first fetch.
FetchSource ==
    /\ pc = "source"
    /\ LET url == SOURCES[si].url
       IN  \E r \in Resp(url, SourceOk(si)) :
            /\ web' = Memo(url, r)
            /\ fails' = Spent(url, r)
            /\ Logged(url, r)
            /\ processed' = Append(processed, si)
            /\ IF ~r.ok
               THEN /\ si' = si + 1
                    /\ pc' = AfterSource
                    /\ UNCHANGED <<walkv, ki, out, scanv, walkEnd>>
               ELSE CASE SourceFacts[si].strategy = "jams" ->
                           /\ p' = 1 /\ collected' = <<>> /\ seen_page' = 0 /\ ci' = 0
                           /\ out' = <<>> /\ ki' = 1
                           /\ walkEnd' = ""
                           /\ pc' = "listing"
                           /\ UNCHANGED <<si, scanv>>
                      [] SourceFacts[si].strategy = "blog" ->
                           /\ blogOnly' = r.blogLinks
                           /\ ai' = 0 /\ out' = <<>>
                           /\ pc' = "blog"
                           /\ UNCHANGED <<si, walkv, ki, threads, ti, stack, page_ts, walkEnd>>
                      [] OTHER ->
                           /\ threads' = ThreadLinksOf[r.hrefs]
                           /\ ti' = 1 /\ out' = <<>>
                           /\ pc' = IF ThreadLinksOf[r.hrefs] = <<>> THEN "return" ELSE "thread"
                           /\ UNCHANGED <<si, walkv, ki, blogOnly, ai, stack, page_ts, walkEnd>>
    /\ UNCHANGED <<focus, now, stateFile, run, mainv, registry, cands, keptCount, detailSet,
                   refetched, lastCard, lastAnchor, lastDetail, slept, matchv,
                   cutIds>>

\* for it in items_from_html(...): the items a scanner returned are merged.
RECURSIVE NewItems(_, _)
NewItems(items, old) ==
    IF Len(items) = 0 THEN <<>>
    ELSE IF hash_item(Head(items)) \notin old
         THEN <<Head(items)>> \o NewItems(Tail(items), old)
         ELSE NewItems(Tail(items), old)

Ids(items) == {hash_item(items[i]) : i \in 1..Len(items)}

\* A plausible slip: new_seen is rebuilt from seen for every source.
MergedSeenLast(ns, items, old) == old \cup Ids(items)

MergedSeen(ns, items, old) == ns \cup Ids(items)

MergeItems ==
    /\ pc = "return"
    /\ found' = found \o NewItems(out, seen)
    /\ new_seen' = MergedSeen(new_seen, out, seen)
    /\ cands' = cands \cup Ids(out)
    /\ out' = <<>>
    /\ si' = si + 1
    /\ pc' = AfterSource
    /\ UNCHANGED <<focus, web, fails, now, stateFile, run, seen, feed, saved, registry, walkv, ki,
                   scanv, processed, jamh, lastAnchor, matchv,
                   histv>>

\* build_rss: one <item> per item, in order.
FeedItem(it, nowv) ==
    [title |-> it.title, link |-> it.link, guid |-> hash_item(it),
     pubDate |-> IF it.ts # None THEN it.ts[1] ELSE nowv,
     description |-> IF Len(it.summary) > 0 THEN it.summary ELSE it.title]

build_rss(items, nowv) == [i \in 1..Len(items) |-> FeedItem(items[i], nowv)]

\* A plausible slip: the feed is not truncated.
CombinedAll(f) == f

\* A plausible slip: found[:50], the first items instead of the last.
CombinedFirst(f) == SubSeq(f, 1, Min(Len(f), KEEP_LATEST))

\* combined = found[-50:]
Combined(f) == LastN(f, KEEP_LATEST)

\* save_seen, then load_seen of what it wrote: json.dumps(sorted(ids))
save_seen(ids) == [kind |-> "valid", ids |-> ids]

Finish ==
    /\ pc = "finish"
    /\ feed' = Some(build_rss(Combined(found), now))
    /\ stateFile' = save_seen(new_seen)
    /\ saved' = TRUE
    /\ pc' = "done"
    /\ UNCHANGED <<focus, web, fails, now, run, si, seen, new_seen, found, registry, walkv, ki,
                   out, scanv, processed, cands, jamh, lastAnchor, matchv,
                   histv>>

\* The next run is a new process; the clock may have moved on by a day.
NextRun ==
    /\ pc = "done"
    /\ run < MaxRuns
    /\ run' = run + 1
    /\ now' \in {now, now + 1}
    /\ pc' = "start"
    /\ si' = 1
    /\ seen' = {} /\ new_seen' = {} /\ found' = <<>>
    /\ feed' = None /\ saved' = FALSE
    /\ registry' = {}
    /\ p' = 1 /\ collected' = <<>> /\ seen_page' = 0 /\ ci' = 0
    /\ ki' = 1 /\ out' = <<>>
    /\ blogOnly' = FALSE /\ ai' = 0 /\ threads' = <<>> /\ ti' = 1 /\ stack' = <<>>
    /\ page_ts' = None
    /\ processed' = <<>> /\ cands' = {}
    /\ walkEnd' = "" /\ keptCount' = 0 /\ detailSet' = {} /\ refetched' = FALSE
    /\ lastCard' = None /\ lastAnchor' = None /\ lastDetail' = None /\ slept' = FALSE
    /\ failedUrls' = {} /\ retried' = {}
    /\ cutIds' = cutIds \cup Ids(SubSeq(found, 1, Len(found) - Len(Combined(found))))
    /\ fails' = 0
    /\ UNCHANGED <<focus, web, stateFile, matchv>>

(***************************************************************************)
(* collect_jam_links_from_listing and items_from_jams_list                 *)
(***************************************************************************)
\* items_from_jams_list iterates over kept, or returns at once.
AfterWalk(coll) == IF Len(coll) = 0 THEN "return" ELSE "detail"

\* A plausible slip: the total cap is not tested before the next page.
WalkOnNoCap(pg, coll) ==
    IF pg = MAX_JAMS_PAGES
    THEN /\ p' = pg /\ pc' = AfterWalk(coll) /\ walkEnd' = "range"
    ELSE /\ p' = pg + 1 /\ pc' = "listing" /\ UNCHANGED walkEnd

\* The loop over p goes to its next iteration after page pg: the range ends,
\* the total cap breaks it, or page pg + 1 is fetched.
WalkOn(pg, coll) ==
    IF pg = MAX_JAMS_PAGES
    THEN /\ p' = pg /\ pc' = AfterWalk(coll) /\ walkEnd' = "range"
    ELSE IF Len(coll) >= MAX_JAMS_TOTAL
    THEN /\ p' = pg /\ pc' = AfterWalk(coll) /\ walkEnd' = "cap"
    ELSE /\ p' = pg + 1 /\ pc' = "listing" /\ UNCHANGED walkEnd

\* A plausible slip: an empty page never stops the walk.
EarlyStopNever(sp, pg) == FALSE

\* if seen_page == 0 and p > 1: break
EarlyStop(sp, pg) == sp = 0 /\ pg > 1

\* A plausible slip: break where the handler has continue.
ListingFailedBreak(pg, coll) == p' = pg /\ pc' = AfterWalk(coll) /\ walkEnd' = "empty"

\* except Exception: print(...); continue (lines 156-158)
ListingFailed(pg, coll) == WalkOn(pg, coll)

FetchListing ==
    /\ pc = "listing"
    /\ LET url == SourceFacts[si].page[p]
       IN  \E r \in Resp(url, {Fetched}) :
            /\ web' = Memo(url, r)
            /\ fails' = Spent(url, r)
            /\ Logged(url, r)
            /\ IF ~r.ok
               THEN /\ ListingFailed(p, collected)
                    /\ UNCHANGED <<seen_page, ci>>
               ELSE /\ seen_page' = 0 /\ ci' = 0
                    /\ pc' = "scan"
                    /\ UNCHANGED <<p, walkEnd>>
            /\ slept' = FALSE
            /\ lastCard' = None /\ lastDetail' = None
    /\ UNCHANGED <<focus, now, stateFile, run, si, mainv, registry, collected, ki, out, scanv,
                   processed, cands, keptCount, detailSet, refetched, lastAnchor, matchv,
                   cutIds>>

\* The continue statement that ends the loop body for a card that is not
\* kept: lines 166, 168, 178, 201.
CardExit(card, reg) ==
    IF ~CardLinkFacts[card.href].jam THEN "link"
    ELSE IF CardLinkFacts[card.href].link \in reg THEN "known"
    ELSE IF CardTextFacts[card.text].ended THEN "ended"
    ELSE "rule"

\* One anchor of the listing page (lines 163-207), or the end of the page
\* (lines 209-213).
ScanCard ==
    /\ pc = "scan"
    /\ \E c \in CardsAt(<<SourceFacts[si].page[p], ci + 1>>, ci) :
        IF c.kind = "end"
        THEN /\ IF EarlyStop(seen_page, p)
                THEN /\ pc' = AfterWalk(collected) /\ p' = p /\ walkEnd' = "empty"
                     /\ UNCHANGED slept
                ELSE WalkOn(p, collected) /\ slept' = TRUE
             /\ lastCard' = None
             /\ UNCHANGED <<registry, collected, seen_page, ci, keptCount>>
        ELSE LET link == CardLinkFacts[c.href].link
                 k == CardKept(c, registry, now)
                 coll == IF k THEN Append(collected, [link |-> link, ts |-> CardTs(c)])
                         ELSE collected
                 sp == IF k THEN seen_page + 1 ELSE seen_page
             IN  /\ lastCard' = IF k
                                THEN Some([kept |-> TRUE, text |-> c.text, ts |-> CardTs(c),
                                           known |-> link \in registry])
                                ELSE Some([kept |-> FALSE, text |-> c.text,
                                           exit |-> CardExit(c, registry),
                                           ts |-> IF CardExit(c, registry) = "rule"
                                                  THEN CardTs(c) ELSE None])
                 /\ registry' = IF k THEN registry \cup {link} ELSE registry
                 /\ collected' = coll
                 /\ seen_page' = sp
                 /\ keptCount' = IF k THEN keptCount + 1 ELSE keptCount
                 /\ ci' = ci + 1
                 /\ IF k /\ (sp >= MAX_JAMS_PER_PAGE \/ Len(coll) >= MAX_JAMS_TOTAL)
                    THEN WalkOn(p, coll) /\ slept' = TRUE
                    ELSE /\ pc' = "scan"
                         /\ UNCHANGED <<p, walkEnd, slept>>
    /\ UNCHANGED <<focus, web, fails, now, stateFile, run, si, mainv, ki, out, scanv, processed,
                   cands, detailSet, refetched, lastAnchor, lastDetail, matchv,
                   histv>>

\* The item items_from_jams_list appends for a matching jam page.
JamItem(label, k, page, nowv) ==
    [title |-> Trunc(label \o " " \o (IF Len(page.title) > 0 THEN page.title ELSE "Jam"), TITLE_MAX),
     link |-> k.link,
     summary |-> Trunc(page.text, SUMMARY_MAX),
     ts |-> IF k.ts # None THEN k.ts ELSE Some(nowv)]

FetchDetail ==
    /\ pc = "detail"
    /\ LET k == collected[ki]
       IN  \E r \in Resp(k.link, JamPageOk(k.link)) :
            /\ web' = Memo(k.link, r)
            /\ fails' = Spent(k.link, r)
            /\ Logged(k.link, r)
            /\ detailSet' = detailSet \cup {k.link}
            /\ refetched' = (refetched \/ k.link \in detailSet)
            /\ lastDetail' = Some([ok |-> r.ok, text |-> IF r.ok THEN r.text ELSE ""])
            /\ out' = IF r.ok /\ JamPageFacts[r].match
                      THEN Append(out, JamItem(SOURCES[si].label, k, r, now))
                      ELSE out
            /\ IF ki = Len(collected)
               THEN pc' = "return" /\ ki' = ki
               ELSE pc' = "detail" /\ ki' = ki + 1
    /\ UNCHANGED <<focus, now, stateFile, run, si, mainv, registry, walkv, scanv, processed,
                   cands, walkEnd, keptCount, lastCard, lastAnchor, slept, matchv,
                   cutIds>>

(***************************************************************************)
(* items_from_html: blog index, board listing, generic page scan           *)
(***************************************************************************)
\* The candidate built from an anchor.
AnchorItem(label, text, href, snippet, ts) ==
    [title |-> Trunc(label \o " " \o text, TITLE_MAX),
     link |-> href,
     summary |-> Trunc(snippet, SUMMARY_MAX),
     ts |-> ts]

\* One anchor of the blog index (lines 257-280), or the end of the page.
BlogAnchor ==
    /\ pc = "blog"
    /\ \E a \in BlogAnchorsAt(<<SOURCES[si].url, ai + 1>>, ai, blogOnly) :
        IF a.kind = "end"
        THEN /\ pc' = "return"
             /\ UNCHANGED <<web, fails, out, ai, lastAnchor, failedUrls, retried>>
        ELSE LET href == AnchorFacts[a].href
                 snippet == AnchorFacts[a].snippet
                 match == AnchorFacts[a].match
                 fetch == match /\ AnchorFacts[a].post
             IN  \E r \in (IF fetch THEN Resp(href, PageOk(href)) ELSE {Failed}) :
                  LET ts == IF fetch /\ r.ok THEN find_page_timestamp(r.raws) ELSE None
                      emit == match /\ within_age(ts, now)
                  IN  /\ web' = IF fetch THEN Memo(href, r) ELSE web
                      /\ fails' = IF fetch THEN Spent(href, r) ELSE fails
                      /\ IF fetch THEN Logged(href, r) ELSE UNCHANGED <<failedUrls, retried>>
                      /\ out' = IF emit
                                THEN Append(out, AnchorItem(SOURCES[si].label, a.text, href,
                                                            snippet, ts))
                                ELSE out
                      /\ lastAnchor' = Some([from |-> "blog", match |-> match, ts |-> ts,
                                             emitted |-> emit])
                      /\ ai' = ai + 1
                      /\ pc' = "blog"
    /\ UNCHANGED <<focus, now, stateFile, run, si, mainv, registry, walkv, ki, blogOnly,
                   threads, ti, stack, page_ts, processed, cands, jamh, matchv,
                   cutIds>>

\* The loop over the thread links goes on; at its end the board scan
\* returns, to main or to the loop of the board scan that called it.
RECURSIVE Unwind(_, _, _)
Unwind(st, ths, i) ==
    IF i < Len(ths) THEN [stack |-> st, threads |-> ths, ti |-> i + 1, pc |-> "thread"]
    ELSE IF Len(st) = 0 THEN [stack |-> st, threads |-> ths, ti |-> i, pc |-> "return"]
    ELSE Unwind(SubSeq(st, 1, Len(st) - 1), st[Len(st)].threads, st[Len(st)].ti)

NextThread ==
    LET u == Unwind(stack, threads, ti)
    IN  pc' = u.pc /\ ti' = u.ti /\ threads' = u.threads /\ stack' = u.stack

\* The depth of the call of items_from_html that the loop over the thread
\* links makes: the loop of the source's board page is at depth 1.
NestedDepth == Len(stack) + 2

\* thtml = get(tlink) and the start of the nested items_from_html: the
\* generic page scan, or the board branch once more when tlink looks like a
\* board listing.  A call beyond the interpreter's recursion limit raises
\* and is handled like a failed fetch.
FetchThread ==
    /\ pc = "thread"
    /\ ThreadStrategy[threads[ti]] \in {"generic", "board"}
    /\ \E r \in Resp(threads[ti], IF ThreadStrategy[threads[ti]] = "board"
                                   THEN NestedBoardOk ELSE PageOk(threads[ti])) :
        /\ web' = Memo(threads[ti], r)
        /\ fails' = Spent(threads[ti], r)
        /\ Logged(threads[ti], r)
        /\ IF ~r.ok \/ NestedDepth > MaxDepth
           THEN /\ NextThread
                /\ UNCHANGED <<page_ts, ai>>
           ELSE IF ThreadStrategy[threads[ti]] = "generic"
           THEN /\ page_ts' = find_page_timestamp(r.raws)
                /\ ai' = 0
                /\ pc' = "tscan"
                /\ UNCHANGED <<ti, threads, stack>>
           ELSE IF ThreadLinksOf[r.hrefs] = <<>>
           THEN /\ NextThread
                /\ UNCHANGED <<page_ts, ai>>
           ELSE /\ stack' = Append(stack, [threads |-> threads, ti |-> ti])
                /\ threads' = ThreadLinksOf[r.hrefs]
                /\ ti' = 1
                /\ pc' = "thread"
                /\ UNCHANGED <<page_ts, ai>>
    /\ UNCHANGED <<focus, now, stateFile, run, si, mainv, registry, walkv, ki, out, blogOnly,
                   processed, cands, jamh, lastAnchor, matchv, cutIds>>

\* One anchor of the generic page scan (lines 301-315), or the end of the page.
ThreadAnchor ==
    /\ pc = "tscan"
    /\ \E a \in ThreadAnchorsAt(<<threads[ti], ai + 1>>, ai) :
        IF a.kind = "end"
        THEN /\ NextThread
             /\ UNCHANGED <<out, ai, lastAnchor>>
        ELSE LET href == AnchorFacts[a].href
                 snippet == AnchorFacts[a].snippet
                 match == AnchorFacts[a].match
                 emit == match /\ within_age(page_ts, now)
             IN  /\ out' = IF emit
                           THEN Append(out, AnchorItem(SOURCES[si].label, a.text, href,
                                                       snippet, page_ts))
                           ELSE out
                 /\ lastAnchor' = Some([from |-> "thread", match |-> match,
                                        ts |-> page_ts, emitted |-> emit])
                 /\ ai' = ai + 1
                 /\ pc' = "tscan"
                 /\ UNCHANGED <<ti, threads, stack>>
    /\ UNCHANGED <<focus, web, fails, now, stateFile, run, si, mainv, registry, walkv, ki,
                   blogOnly, page_ts, processed, cands, jamh, matchv, histv>>

Next ==
    \/ LoadSeen
    \/ FetchSource
    \/ FetchListing
    \/ ScanCard
    \/ FetchDetail
    \/ BlogAnchor
    \/ FetchThread
    \/ ThreadAnchor
    \/ MergeItems
    \/ Finish
    \/ NextRun

\* Runs over the small site, with any state file in front of the first.
Spec == Init /\ [][Next]_vars

\* main() is one thread of control and get() has a timeout: a step that can
\* be taken is taken.
LiveSpec == Init /\ [][Next]_vars /\ WF_vars(Next)

\* Unchanged upstream: a url is answered as it was answered before.
ReplayInit ==
    /\ focus = "replay"
    /\ stateFile \in StateFiles
    /\ InitRun

ReplaySpec == ReplayInit /\ [][Next]_vars

\* One run over a site that serves its jam listings in full, while the blog
\* and board fetches fail.
JamInit ==
    /\ focus = "jams"
    /\ stateFile = [kind |-> "absent", ids |-> {}]
    /\ InitRun

JamNext ==
    \/ LoadSeen
    \/ FetchSource
    \/ FetchListing
    \/ ScanCard
    \/ FetchDetail
    \/ MergeItems
    \/ Finish

JamSpec == JamInit /\ [][JamNext]_vars

\* One run over a site that serves its blog and board pages in full, while
\* the jam listing fetches fail.
PageInit ==
    /\ focus = "pages"
    /\ stateFile \in {[kind |-> "absent", ids |-> {}], [kind |-> "valid", ids |-> PriorIds2]}
    /\ InitRun

PageNext ==
    \/ LoadSeen
    \/ FetchSource
    \/ BlogAnchor
    \/ FetchThread
    \/ ThreadAnchor
    \/ MergeItems
    \/ Finish

PageSpec == PageInit /\ [][PageNext]_vars

\* One run over a site whose board pages carry relative links, while the
\* blog and the jam listing fetches fail.
BoardInit ==
    /\ focus = "board"
    /\ stateFile = [kind |-> "absent", ids |-> {}]
    /\ InitRun

BoardNext ==
    \/ LoadSeen
    \/ FetchSource
    \/ FetchThread
    \/ ThreadAnchor
    \/ MergeItems
    \/ Finish

BoardSpec == BoardInit /\ [][BoardNext]_vars

(***************************************************************************)
(* The matcher on its own: a text is put together from pieces and          *)
(* CHARITY.search is applied to it.                                        *)
(***************************************************************************)
Pieces ==
    {"charity", "CHARITY", "Fundraiser", "fundraising", "donation", "Relief", "benefit",
     "mutual", "aid", "non", "profit", "nonprofital", "fund", "raiser", " ", "-", "s"}

RECURSIVE Join(_)
Join(parts) == IF Len(parts) = 0 THEN "" ELSE Head(parts) \o Join(Tail(parts))

MatchInit ==
    /\ focus = "match"
    /\ stateFile = [kind |-> "absent", ids |-> {}]
    /\ InitRun

AddPiece ==
    /\ focus = "match"
    /\ mres = None
    /\ Len(mparts) < MaxPieces
    /\ \E x \in Pieces : mparts' = Append(mparts, x)
    /\ UNCHANGED <<focus, web, fails, now, stateFile, run, pc, si, mainv, registry, walkv, ki,
                   out, scanv, processed, cands, jamh, lastAnchor, mres,
                   histv>>

Search ==
    /\ focus = "match"
    /\ mres = None
    /\ mres' = Some(CharityMatch(Join(mparts)))
    /\ UNCHANGED <<focus, web, fails, now, stateFile, run, pc, si, mainv, registry, walkv, ki,
                   out, scanv, processed, cands, jamh, lastAnchor, mparts,
                   histv>>

MatchNext ==
    \/ AddPiece
    \/ Search

MatchSpec == MatchInit /\ [][MatchNext]_vars

(***************************************************************************)
(* Properties of main(): the seen-set, the feed, completion.               *)
(***************************************************************************)
RunDone == pc = "done"

FeedLen == IF feed = None THEN 0 ELSE Len(feed[1])

C2_BoundedOutput ==
    RunDone =>
        /\ feed # None
        /\ FeedLen = Min(KEEP_LATEST, Len(found))
        /\ FeedLen <= KEEP_LATEST

\* A run found more new items than the feed holds.
C2_Witness == RunDone /\ Len(found) > KEEP_LATEST /\ FeedLen = KEEP_LATEST

\* C3: the seen-set a run saves is the seen-set it loaded together with the
\* fingerprint of every candidate the sources returned, and no step of any
\* run removes a fingerprint from the saved seen-set.
C3_Saved == RunDone => stateFile = [kind |-> "valid", ids |-> seen \cup cands]

C3_Grows == load_seen(stateFile) \subseteq load_seen(stateFile')

C3_SeenMerge == [](C3_Saved) /\ [][C3_Grows]_vars

\* A run that loaded fingerprints met seen and new candidates and found more
\* new items than went into the feed.
C3_Witness ==
    /\ RunDone
    /\ seen # {}
    /\ cands \cap seen # {}
    /\ cands \ seen # {}
    /\ Len(found) > KEEP_LATEST

\* C4: whichever fetches fail and whatever the state file holds, a run
\* attempts every source in order, ends, and has then written the feed and
\* the seen-set.
AllSources == [i \in 1..Len(SOURCES) |-> i]

C4_Done == RunDone => (processed = AllSources /\ feed # None /\ saved /\ stateFile.kind = "valid")

C4_Order == \A i \in 1..Len(processed) : processed[i] = i

C4_Completion == [](C4_Done /\ C4_Order) /\ ((pc = "start") ~> RunDone)

\* A run in front of an unreadable state file ended after failed fetches.
C4_Witness == RunDone /\ run = 1 /\ fails = MaxFails /\ seen = {} /\ Len(found) > 0

(***************************************************************************)
(* Whole words and phrases of a text, read off its division into maximal   *)
(* runs of word characters and the runs between them.                      *)
(***************************************************************************)
RECURSIVE RunLen(_, _)
RunLen(s, w) == IF Len(s) > 0 /\ IsWordChar(Head(s)) = w THEN 1 + RunLen(Tail(s), w) ELSE 0

RECURSIVE Runs(_)
Runs(s) ==
    IF Len(s) = 0 THEN <<>>
    ELSE LET n == RunLen(s, IsWordChar(Head(s)))
         IN  <<SubSeq(s, 1, n)>> \o Runs(SubSeq(s, n + 1, Len(s)))

HasWord(text, words) ==
    LET r == Runs(LowerStr(text)) IN \E i \in 1..Len(r) : r[i] \in words

IsSpaceRun(r) == \A i \in 1..Len(r) : IsSpace(CharAt(r, i))

\* word a, a run between words that is in seps or (blanks) white space only, word b
HasPhrase(text, a, seps, blanks, b) ==
    LET r == Runs(LowerStr(text))
    IN  \E i \in 1..Len(r) :
            /\ i + 2 <= Len(r)
            /\ r[i] = a
            /\ (r[i + 1] \in seps \/ (blanks /\ IsSpaceRun(r[i + 1])))
            /\ r[i + 2] = b

HasStatusPhrase(text) ==
    \/ HasPhrase(text, "starts", {" "}, FALSE, "in")
    \/ HasPhrase(text, "ends", {" "}, FALSE, "in")
    \/ HasPhrase(text, "closes", {" "}, FALSE, "in")

EndedTexts == {t \in {c.text : c \in AllCards} : HasWord(t, {"ended"})}
StatusTexts == {t \in {c.text : c \in AllCards} : HasStatusPhrase(t)}

(***************************************************************************)
(* Properties of the jam pagination walker.                                *)
(***************************************************************************)
CardRead == ci' = ci + 1

\* C5: a card whose container text has the whole word "Ended", in any letter
\* case, is not kept: reading it leaves the registry, the collected links
\* and the number of kept links as they were, whatever else the container
\* says.
C5_EndedExclusion ==
    [][(CardRead /\ lastCard'[1].text \in EndedTexts) =>
            /\ ~lastCard'[1].kept
            /\ registry' = registry
            /\ collected' = collected
            /\ keptCount' = keptCount]_vars

\* A card of a jam not yet registered, with "ended" and a status phrase in
\* its text, was read and left at the Ended test.
C5_Witness ==
    /\ lastCard # None
    /\ ~lastCard[1].kept
    /\ lastCard[1].exit = "ended"
    /\ lastCard[1].text \in EndedTexts \cap StatusTexts

\* the end of a listing page is read after no card of the page was kept
PageEnd == pc = "scan" /\ pc' # "scan" /\ ci' = ci /\ seen_page = 0

\* C6: when a fetched page after the first yields no kept link the walk
\* ends there with the links collected so far, and no further page is
\* fetched; a first page that yields none is followed by page 2.
C6_EarlyStop ==
    [][PageEnd =>
            IF p > 1
            THEN /\ pc' \in {"return", "detail"}
                 /\ p' = p
                 /\ collected' = collected
                 /\ walkEnd' = "empty"
            ELSE pc' = "listing" /\ p' = 2]_vars

\* ... and once the walk has returned its links no listing page is fetched
\* before the next source is taken up.
C6_WalkOver == [][(pc \in {"detail", "return"}) => (pc' # "listing" /\ pc' # "scan")]_vars

C6_PaginationStop == C6_EarlyStop /\ C6_WalkOver

\* Page 1 gave links, page 2 none, and the walk ended before the last page.
C6_Witness ==
    /\ pc = "detail"
    /\ walkEnd = "empty"
    /\ p = 2 /\ p < MAX_JAMS_PAGES
    /\ Len(collected) = MAX_JAMS_PER_PAGE

\* C7: the number of jam links kept in a run, over all jam listings, is at
\* most MAX_JAMS_TOTAL.
C7_GlobalCap == keptCount <= MAX_JAMS_TOTAL

\* C8: in a run every jam url is kept at most once and its page is fetched
\* at most once, over all listings and pages, and the registry only grows.
C8_Once ==
    /\ keptCount = Cardinality(registry)
    /\ ~refetched
    /\ detailSet \subseteq registry
    /\ (lastCard # None /\ lastCard[1].kept) => ~lastCard[1].known

C8_RegistryDedup == [](C8_Once) /\ [][registry \subseteq registry']_vars

\* The second listing showed a jam the first listing had kept, after that
\* jam's page had failed or had not matched.
C8_Witness ==
    /\ si = 4
    /\ lastCard # None
    /\ ~lastCard[1].kept
    /\ lastCard[1].exit = "known"
    /\ detailSet # {}
    /\ found = <<>>

(***************************************************************************)
(* Properties of the keyword filter.                                       *)
(***************************************************************************)
MatchText == Join(mparts)

Searched == focus = "match" /\ mres # None

\* The vocabulary as the specification lists it ...
ListedTerm(text) ==
    \/ HasWord(text, {"charity", "fundraiser", "donation", "relief", "benefit", "fundraising"})
    \/ HasPhrase(text, "mutual", {" "}, FALSE, "aid")
    \/ HasPhrase(text, "non", {"-", " "}, FALSE, "profit")

\* ... and a listed term inside a longer word.
ListedInside(text) ==
    \E term \in {"charity", "fundraiser", "donation", "relief", "benefit", "fundraising",
                 "mutual aid", "non-profit", "non profit"} :
        Contains(LowerStr(text), term)

\* C9 as stated: a text with a listed term as a whole word or phrase
\* matches, and a text with listed terms only inside longer words does not.
C9_Listed ==
    Searched =>
        /\ ListedTerm(MatchText) => mres[1]
        /\ (ListedInside(MatchText) /\ ~ListedTerm(MatchText)) => ~mres[1]

\* The vocabulary of the pattern: fundraising is not in it; fund, fund
\* raiser and nonprofit are.
PatternTerm(text) ==
    \/ HasWord(text, {"charity", "fundraiser", "donation", "relief", "benefit", "fund",
                      "nonprofit"})
    \/ HasPhrase(text, "mutual", {" "}, FALSE, "aid")
    \/ HasPhrase(text, "non", {"-", " "}, FALSE, "profit")
    \/ HasPhrase(text, "fund", {}, TRUE, "raiser")

\* C9, amended: a text matches if it has a term of the pattern's vocabulary
\* as a whole word or phrase, in any letter case, and does not match if it
\* has none, as when terms occur only inside longer words.
C9_Vocabulary == Searched => (mres[1] <=> PatternTerm(MatchText))

\* "non-profit" was searched and matched.
C9_Witness == Searched /\ mparts = <<"non", "-", "profit">> /\ mres[1]

(***************************************************************************)
(* Properties of the blog and thread scans.                                *)
(***************************************************************************)
Fresh(ts) == ts # None /\ now - ts[1] <= MAX_AGE_DAYS

\* C10: every item the blog scan or the thread scan emits carries a
\* timestamp at most MAX_AGE_DAYS old, and an anchor is emitted only if its
\* timestamp is present and that fresh.
C10_FreshOnly ==
    /\ pc \in {"blog", "thread", "tscan", "return"} => \A i \in 1..Len(out) : Fresh(out[i].ts)
    /\ \A i \in 1..Len(found) : Fresh(found[i].ts)
    /\ lastAnchor # None => (lastAnchor[1].emitted => Fresh(lastAnchor[1].ts))

\* A matching anchor of a blog post dated 45 days back was not emitted.
C10_Witness ==
    /\ lastAnchor # None
    /\ lastAnchor[1].from = "blog"
    /\ lastAnchor[1].match
    /\ lastAnchor[1].ts = Some(now - 45)
    /\ ~lastAnchor[1].emitted

(***************************************************************************)
(* Properties of the jam pipeline: card filter, detail page, walker.       *)
(***************************************************************************)
\* The jam page texts and card texts in which a term of the matcher's
\* pattern stands as a whole word.
JamTextsMatching == {t \in {pg.text : pg \in AllJamPages} : PatternTerm(t)}
CardTextsMatching == {t \in {c.text : c \in AllCards} : PatternTerm(t)}

KeptLinks == {collected[i].link : i \in 1..Len(collected)}

DetailRead == pc = "detail" /\ (ki' # ki \/ pc' # pc)

\* C11: a card that is not kept adds nothing to the kept links; the fetch
\* of a kept link's jam page adds one item with that link to the output
\* exactly when the page was fetched and its text matches, and nothing
\* otherwise; no other step of the jam pipeline adds to the output, so
\* every item of the output carries a kept link.
C11_DetailDecides ==
    /\ [][(CardRead /\ ~lastCard'[1].kept) => collected' = collected]_vars
    /\ [][DetailRead =>
            IF lastDetail'[1].ok /\ lastDetail'[1].text \in JamTextsMatching
            THEN out' = Append(out, out'[Len(out')]) /\ out'[Len(out')].link = collected[ki].link
            ELSE out' = out]_vars
    /\ [][(pc \in {"listing", "scan"}) => out' = out]_vars
    /\ []((pc = "detail") => \A i \in 1..Len(out) : out[i].link \in KeptLinks)

\* A walk ended on a kept card whose text names a charity; the jam page
\* fetched last was served, did not match, and the pipeline returns nothing.
C11_Witness ==
    /\ pc = "return"
    /\ lastCard # None /\ lastCard[1].kept /\ lastCard[1].text \in CardTextsMatching
    /\ lastDetail # None /\ lastDetail[1].ok /\ lastDetail[1].text \notin JamTextsMatching
    /\ out = <<>>

\* The inclusion rule in the words of the card: a status phrase, and a time
\* in the future when the card carries one.
CardRule(text, ts, nowv) ==
    IF ts # None THEN ts[1] > nowv /\ text \in StatusTexts ELSE text \in StatusTexts

\* The card read last is a jam link outside the registry without "Ended".
RuleApplied == lastCard # None /\ (lastCard[1].kept \/ lastCard[1].exit = "rule")

\* C12: a card that is neither ended nor in the registry is kept exactly
\* when its text has a status phrase and its time, if it has one, is strictly
\* later than the clock; with a time that is not in the future it is dropped
\* whatever its text says.
C12_TwoTier ==
    RuleApplied =>
        /\ lastCard[1].kept <=> CardRule(lastCard[1].text, lastCard[1].ts, now)
        /\ (lastCard[1].ts # None /\ lastCard[1].ts[1] <= now) => ~lastCard[1].kept

\* A card with a status phrase and a time equal to the clock was dropped.
C12_Witness ==
    /\ RuleApplied
    /\ ~lastCard[1].kept
    /\ lastCard[1].text \in StatusTexts
    /\ lastCard[1].ts = Some(now)

\* get() raised for listing page p: the fetch step leaves "listing" for
\* another page or for the end of the walk, never for the scan of a page.
ListingFetchFailed == pc = "listing" /\ pc' # "scan" /\ (pc' # pc \/ p' # p)

\* C13: when the fetch of listing page p fails the collected links stay as
\* they are, the walk is not ended by the empty-page rule, and page p + 1 is
\* fetched next if p is not the last page and the total cap is not reached;
\* otherwise the walk ends with what it has.
C13_FailedPageSkipped ==
    [][ListingFetchFailed =>
            /\ collected' = collected
            /\ registry' = registry
            /\ walkEnd' # "empty"
            /\ IF p < MAX_JAMS_PAGES /\ Len(collected) < MAX_JAMS_TOTAL
               THEN pc' = "listing" /\ p' = p + 1
               ELSE pc' = AfterWalk(collected) /\ walkEnd' \in {"range", "cap"}]_vars

\* The fetch of page 2 failed after page 1 gave a link, and page 3 is next.
C13_Witness ==
    /\ pc = "listing" /\ p = 3
    /\ ~slept
    /\ Len(collected) = 1

\* A fetch of listing page p is attempted.
ListingFetch == pc = "listing" /\ (pc' # pc \/ p' # p)

\* C14: when a listing page after the first is fetched, the walker's delay
\* has run since the fetch attempt of the page before it.
C14_Polite == [][(ListingFetch /\ p > 1) => slept]_vars

\* C18: within one walk at most the per-page cap of links is kept from the
\* page at hand, the pages fetched are numbered 1, 2, ... up to the page
\* limit, each fetched once, the collected links are pairwise distinct and
\* no more than the smaller of the total cap and pages times per-page cap,
\* and no listing page is fetched once the total cap is reached.
C18_Caps ==
    /\ seen_page <= MAX_JAMS_PER_PAGE
    /\ p \in 1..MAX_JAMS_PAGES
    /\ Cardinality(KeptLinks) = Len(collected)
    /\ Len(collected) <= Min(MAX_JAMS_TOTAL, MAX_JAMS_PAGES * MAX_JAMS_PER_PAGE)
    /\ (pc = "listing") => Len(collected) < MAX_JAMS_TOTAL

C18_PerWalkCaps ==
    /\ [](C18_Caps)
    /\ [][(pc \in {"listing", "scan"} /\ pc' = "listing") => p' = p + 1]_vars
    /\ [][(pc \notin {"listing", "scan"} /\ pc' = "listing") => (p' = 1 /\ collected' = <<>>)]_vars

\* The total cap ended a walk before its last page.
C18_Witness ==
    /\ pc = "detail"
    /\ walkEnd = "cap"
    /\ Len(collected) = MAX_JAMS_TOTAL
    /\ p < MAX_JAMS_PAGES

(***************************************************************************)
(* Properties of the feed.                                                 *)
(***************************************************************************)
\* The position in found of the j-th item of the feed.
FeedSource(j) == Len(found) - FeedLen + j

\* C17: the feed's items are the last min(cap, n) items of the new list, one
\* for one and in the same order, whatever their timestamps; and the new
\* list only grows at its end, by the items of the source just scanned.
C17_Last ==
    RunDone =>
        /\ FeedLen = Min(KEEP_LATEST, Len(found))
        /\ \A j \in 1..FeedLen :
                /\ feed[1][j].title = found[FeedSource(j)].title
                /\ feed[1][j].link = found[FeedSource(j)].link
                /\ feed[1][j].guid = hash_item(found[FeedSource(j)])

\* a is b with some elements left out, the others in b's order.
RECURSIVE IsSubSeqOf(_, _)
IsSubSeqOf(a, b) ==
    IF Len(a) = 0 THEN TRUE
    ELSE IF Len(b) = 0 THEN FALSE
    ELSE IF Head(a) = Head(b) THEN IsSubSeqOf(Tail(a), Tail(b))
    ELSE IsSubSeqOf(a, Tail(b))

C17_Appends ==
    \/ found' = <<>>
    \/ /\ Len(found') >= Len(found)
       /\ SubSeq(found', 1, Len(found)) = found
       /\ IsSubSeqOf(SubSeq(found', Len(found) + 1, Len(found')), out)

C17_TruncationKeepsLast == [](C17_Last) /\ [][C17_Appends]_vars

\* The item cut from the feed carries a later timestamp than an item kept.
C17_Witness ==
    /\ RunDone
    /\ Len(found) > KEEP_LATEST
    /\ found[1].ts # None /\ found[Len(found)].ts # None
    /\ found[1].ts[1] > found[Len(found)].ts[1]

\* C19: no two items of the new list carry the same fingerprint (and so no
\* two items of the feed carry the same guid).
C19_UniqueIds == Cardinality(Ids(found)) = Len(found)

FeedIds == IF feed = None THEN {} ELSE {feed[1][j].guid : j \in 1..FeedLen}

\* C20: the state file a run writes holds the fingerprint of every item of
\* its new list, the items cut from the feed included; the fingerprints cut
\* by earlier runs stay in the state file, and no item with such a
\* fingerprint is in the new list or in the feed of a later run.
C20_CutStillSeen ==
    /\ RunDone => Ids(found) \subseteq load_seen(stateFile)
    /\ cutIds \subseteq load_seen(stateFile)
    /\ Ids(found) \cap cutIds = {}
    /\ FeedIds \cap cutIds = {}

\* The second run met an item again that the first run had cut from its feed.
C20_Witness ==
    /\ RunDone /\ run = 2
    /\ cutIds \cap cands # {}
    /\ feed # None

\* C16: no url is fetched in a run after a fetch of it failed in that run.
C16_NoRefetch == retried = {}

(***************************************************************************)
(* Properties of the board scan.                                           *)
(***************************************************************************)
\* C15: no call of items_from_html made for a thread link takes the board
\* branch, so that no loop over thread links ever waits for a nested one and
\* the calls are never more than two deep.
C15_DepthOne == stack = <<>> /\ ((pc = "tscan") => NestedDepth <= 2)

====
